---------------------------- MODULE Spec2Model ----------------------------
(***************************************************************************)
(* Model of smff/analysis/fisher.py: the construction of a Fisher object   *)
(* (Fisher.__init__ and the methods it calls, one action per method or     *)
(* loop iteration) and the two matrix conversions.                         *)
(*                                                                         *)
(* Numbers.  The program computes in floating point; the model computes    *)
(* in exact rational arithmetic, a number being a pair <<n, d>> in lowest  *)
(* terms with d > 0.  Only finite values are modelled: a division by zero  *)
(* has no value here (RInv has no case for it and TLC stops with an error  *)
(* if one is ever evaluated), so the inputs below hold no zero step and no *)
(* zero noise variance.  Square roots and the condition number are kept    *)
(* as exact symbolic terms.                                                *)
(*                                                                         *)
(* Images.  A pixel image is the sequence of its pixel values (the stamp   *)
(* flattened); every operation of the program on images is elementwise or  *)
(* a sum over all pixels.                                                  *)
(***************************************************************************)
EXTENDS Integers, Sequences, FiniteSets, TLC

(* ------------------------------ bounds -------------------------------- *)

\* Number of pixels of the stamp.
NumPixels == 2

\* Galaxy fluxes range over 1..MaxFlux.
MaxFlux == 2

\* Galaxy positions range over 0..MaxX0.
MaxX0 == 1

(* --------------------------- exact numbers ---------------------------- *)

Abs(n) == IF n < 0 THEN -n ELSE n

RECURSIVE GCD(_, _)
GCD(a, b) == IF b = 0 THEN a ELSE GCD(b, a % b)

\* The rational n/d in lowest terms.  d = 0 matches no case.
Rat(n, d) ==
    CASE d > 0 -> LET g == GCD(Abs(n), d) IN <<n \div g, d \div g>>
      [] d < 0 -> LET g == GCD(Abs(n), -d) IN <<(-n) \div g, (-d) \div g>>

RInt(n) == <<n, 1>>

\* Sums and products cancel common factors before they multiply, so that the
\* intermediate integers stay as small as the result allows.
RAdd(a, b) ==
    LET g == GCD(a[2], b[2])
    IN  Rat(a[1] * (b[2] \div g) + b[1] * (a[2] \div g), (a[2] \div g) * b[2])
RMul(a, b) ==
    LET g1 == GCD(Abs(a[1]), b[2])
        g2 == GCD(Abs(b[1]), a[2])
    IN  <<(a[1] \div g1) * (b[1] \div g2), (a[2] \div g2) * (b[2] \div g1)>>
\* 1/a.  a = 0 matches no case.
RInv(a) ==
    CASE a[1] > 0 -> <<a[2], a[1]>>
      [] a[1] < 0 -> <<-a[2], -a[1]>>
RDiv(a, b) == RMul(a, RInv(b))
RNeg(a) == <<-a[1], a[2]>>
RSub(a, b) == RAdd(a, RNeg(b))
RIsNeg(a) == a[1] < 0
RIsZero(a) == a[1] = 0

(* ------------------------------ images -------------------------------- *)

Pixels == 1..NumPixels

ImgAdd(a, b) == [k \in Pixels |-> RAdd(a[k], b[k])]
ImgSub(a, b) == [k \in Pixels |-> RSub(a[k], b[k])]
ImgMul(a, b) == [k \in Pixels |-> RMul(a[k], b[k])]
ImgScale(c, a) == [k \in Pixels |-> RMul(c, a[k])]
ImgDiv(a, c) == [k \in Pixels |-> RDiv(a[k], c)]
ZeroImage == [k \in Pixels |-> RInt(0)]

RECURSIVE SumUpTo(_, _)
SumUpTo(a, n) == IF n = 0 THEN RInt(0) ELSE RAdd(SumUpTo(a, n - 1), a[n])

\* numpy's array.sum(): the sum over all pixels.
ImgSum(a) == SumUpTo(a, NumPixels)

(* --------------------- parameter set and renderer --------------------- *)

\* The parameter names of the model and, for each, its galaxy and its key in
\* that galaxy's own parameters.
NameTable ==
    ("flux_1" :> [id |-> "1", key |-> "flux"]) @@
    ("x0_1"   :> [id |-> "1", key |-> "x0"]) @@
    ("flux_2" :> [id |-> "2", key |-> "flux"]) @@
    ("x0_2"   :> [id |-> "2", key |-> "x0"])

\* Galaxy ids in the order of id_params.keys().
IdOrder == <<"1", "2">>

FlatName(id, key) == CHOOSE n \in DOMAIN NameTable : NameTable[n] = [id |-> id, key |-> key]

\* The flat name -> value mapping of a per-galaxy grouping.
FlatParams(id_params) ==
    [n \in {m \in DOMAIN NameTable : NameTable[m].id \in DOMAIN id_params}
        |-> id_params[NameTable[n].id][NameTable[n].key]]

GalaxyValues == [flux : 1..MaxFlux, x0 : 0..MaxX0]

\* A second galaxy, when there is one, has unit flux.
SecondGalaxyValues == [flux : {1}, x0 : 0..MaxX0]

FitOrderings(id_params) ==
    IF DOMAIN id_params = {"1"}
    THEN {<<"flux_1">>, <<"flux_1", "x0_1">>}
    ELSE {<<"flux_1", "flux_2">>}

\* The parameter sets a Fisher object is constructed from: one or two galaxies.
GParametersSet ==
    LET groupings == {("1" :> g) : g \in GalaxyValues}
                     \cup {("1" :> g) @@ ("2" :> h) : g \in GalaxyValues, h \in SecondGalaxyValues}
    IN  UNION {{[id_params |-> ip,
                 params |-> FlatParams(ip),
                 ordered_fit_names |-> names,
                 num_galaxies |-> Cardinality(DOMAIN ip)]
                : names \in FitOrderings(ip)} : ip \in groupings}

\* The renderers of the model: how a galaxy's surface brightness at pixel k
\* depends on its position x.
\*   "lin"  : linear in x everywhere
\*   "hat"  : a peak at x = k that falls off linearly to zero at distance 3
\*   "kink" : constant for |x| <= 1, linear in |x| beyond
RendererKinds == {"lin", "hat", "kink"}

Max0(n) == IF n > 0 THEN n ELSE 0

Profile(kind, k, x) ==
    CASE kind = "lin"  -> x + k
      [] kind = "hat"  -> Max0(3 - Abs(x - k))
      [] kind = "kink" -> k + Max0(Abs(x) - 1)

\* gparameters.get_galaxy_model: the model of one galaxy from its own parameters.
get_galaxy_model(gal_params) == <<[flux |-> gal_params.flux, x0 |-> gal_params.x0]>>

\* gparameters.get_galaxies_models: the models of all galaxies of a flat
\* name -> value mapping, in the order of their ids.
get_galaxies_models(params) ==
    LET ids == {NameTable[n].id : n \in DOMAIN params}
        present == SelectSeq(IdOrder, LAMBDA id : id \in ids)
    IN  [g \in 1..Len(present) |->
            [flux |-> params[FlatName(present[g], "flux")],
             x0   |-> params[FlatName(present[g], "x0")]]]

GalaxyImage(kind, gal) == [k \in Pixels |-> RInt(gal.flux * Profile(kind, k, gal.x0))]

RECURSIVE DrawGalaxies(_, _, _)
DrawGalaxies(kind, models, n) ==
    IF n = 0 THEN ZeroImage
    ELSE ImgAdd(DrawGalaxies(kind, models, n - 1), GalaxyImage(kind, models[n]))

\* ImageRenderer.get_image: the image of a list of galaxy models (their sum).
get_image(kind, models) == DrawGalaxies(kind, models, Len(models))

(* ------------------------- collaborators ------------------------------ *)

\* Exact symbolic square root: Sqrt(x) stands for the real number sqrt(x).
Sqrt(x) == [sqrt |-> x]

\* images.add_noise(image, snr, seed) -> (noisy image, variance): the variance
\* of the noise that gives the image the signal-to-noise ratio snr, the
\* inverse of get_snr.  Only the variance is used by the constructor.
add_noise(img, target_snr) == RDiv(ImgSum(ImgMul(img, img)), RInt(target_snr * target_snr))

\* get_snr(img, var_noise) = sqrt(sum(img ** 2) / var_noise)
get_snr(img, variance) == Sqrt(RDiv(ImgSum(ImgMul(img, img)), variance))

\* The steps defaults.get_steps may return for a parameter.  The policy is an
\* external collaborator: the constructor uses whatever it returns.
StepValues == {-1, 1, 2}

\* The target signal-to-noise ratios a caller may pass.
SnrValues == {1, 2}

\* The noise variances a caller may pass; <<>> is var_noise=None.
VarNoiseArgs == {<<>>, <<RInt(-1)>>, <<RInt(2)>>}

(* ------------------------------ state --------------------------------- *)

VARIABLES
    g_parameters,              \* the caller's GParameters object
    image_renderer,            \* the renderer (its kind)
    snr,                       \* constructor argument snr
    var_noise_arg,             \* constructor argument var_noise (<<>> = None)
    pc,                        \* the statement of __init__ to run next
    i, j,                      \* loop indices of the two derivative loops
    error,                     \* the exception that ended construction, or ""
    image,                     \* self.image
    var_noise,                 \* self.var_noise (<<>> before it is set)
    snrs,                      \* self.snrs (set only for several galaxies)
    noise_calls,               \* the images add_noise was called with, in order
    steps,                     \* self.steps
    param_names,               \* self.param_names
    derivatives_images,
    second_derivatives_images,
    fisher_matrix_images,
    fisher_matrix,
    covariance_matrix,
    correlation_matrix,
    bias_matrix_images,
    bias_matrix,
    bias_images,
    biases,
    fisher_condition_number,   \* <<>> before it is set
    rendered,                  \* parameter vectors rendered by the latest loop iteration
    differentiated,            \* the parameter names that iteration differentiated
    conv_arg,                  \* the matrix a conversion round trip starts from
    named, dense,              \* the latest name-keyed and dense results of a conversion
    conv                       \* the position in a conversion round trip

inputs == <<g_parameters, image_renderer, snr, var_noise_arg>>
control == <<pc, i, j, error>>
noise == <<image, var_noise, snrs, noise_calls>>
derivs == <<derivatives_images, second_derivatives_images, rendered, differentiated>>
results == <<fisher_matrix_images, fisher_matrix, covariance_matrix, correlation_matrix,
             bias_matrix_images, bias_matrix, bias_images, biases, fisher_condition_number>>
conversion == <<conv_arg, named, dense, conv>>
vars == <<inputs, control, noise, steps, param_names, derivs, results, conversion>>

num_params == Len(param_names)

\* An attribute not yet assigned: the empty mapping.
Unset == <<>>

Init ==
    /\ g_parameters \in GParametersSet
    /\ image_renderer \in RendererKinds
    /\ snr \in SnrValues
    /\ var_noise_arg \in VarNoiseArgs
    /\ pc = "var_noise"
    /\ i = 0 /\ j = 0
    /\ error = ""
    /\ image = Unset /\ var_noise = Unset /\ snrs = Unset /\ noise_calls = <<>>
    /\ steps = Unset /\ param_names = <<>>
    /\ derivatives_images = Unset /\ second_derivatives_images = Unset
    /\ rendered = <<>> /\ differentiated = <<>>
    /\ fisher_matrix_images = Unset /\ fisher_matrix = Unset
    /\ covariance_matrix = Unset /\ correlation_matrix = Unset
    /\ bias_matrix_images = Unset /\ bias_matrix = Unset
    /\ bias_images = Unset /\ biases = Unset
    /\ fisher_condition_number = Unset
    /\ conv_arg = Unset /\ named = Unset /\ dense = Unset /\ conv = "off"

(* ------------------- __init__: image and noise variance ---------------- *)

\* The images of the galaxies after the first, each rendered alone.
OtherGalaxyImages ==
    LET ids == SelectSeq(IdOrder, LAMBDA id : id \in DOMAIN g_parameters.id_params)
    IN  [g \in 1..(Len(ids) - 1) |->
            get_image(image_renderer, get_galaxy_model(g_parameters.id_params[ids[g + 1]]))]

\* Mutant of SelectVarNoise: with several galaxies the variance is taken from
\* the full image instead of the image of the first galaxy.
SelectVarNoise_full_image(full_image) ==
    IF var_noise_arg = <<>>
    THEN LET variance == add_noise(full_image, snr)
             others == OtherGalaxyImages
         IN  [var_noise |-> variance,
              noise_calls |-> <<full_image>>,
              snrs |-> IF g_parameters.num_galaxies = 1 THEN Unset
                       ELSE <<[value |-> snr]>> \o
                            [g \in 1..Len(others) |-> get_snr(others[g], variance)]]
    ELSE [var_noise |-> var_noise_arg[1], noise_calls |-> <<>>, snrs |-> Unset]

\* Lines 74-92: the noise variance, the calls of the noise model and self.snrs.
SelectVarNoise(full_image) ==
    IF var_noise_arg = <<>>
    THEN IF g_parameters.num_galaxies = 1
         THEN [var_noise |-> add_noise(full_image, snr),
               noise_calls |-> <<full_image>>,
               snrs |-> Unset]
         ELSE LET image_galaxy1 == get_image(image_renderer,
                                             get_galaxy_model(g_parameters.id_params["1"]))
                  variance == add_noise(image_galaxy1, snr)
                  others == OtherGalaxyImages
              IN  [var_noise |-> variance,
                   noise_calls |-> <<image_galaxy1>>,
                   snrs |-> <<[value |-> snr]>> \o
                            [g \in 1..Len(others) |-> get_snr(others[g], variance)]]
    ELSE [var_noise |-> var_noise_arg[1], noise_calls |-> <<>>, snrs |-> Unset]

\* Lines 64-92.
InitVarNoise ==
    /\ pc = "var_noise"
    /\ LET full_image == get_image(image_renderer, get_galaxies_models(g_parameters.params))
           sel == SelectVarNoise(full_image)
       IN  /\ image' = full_image
           /\ var_noise' = sel.var_noise
           /\ noise_calls' = sel.noise_calls
           /\ snrs' = sel.snrs
    /\ pc' = "steps"
    /\ UNCHANGED <<inputs, i, j, error, steps, param_names, derivs, results, conversion>>

\* Lines 94-96: the step sizes and the parameter ordering.
InitSteps ==
    /\ pc = "steps"
    /\ param_names' = g_parameters.ordered_fit_names
    /\ \E s \in [{g_parameters.ordered_fit_names[a] :
                    a \in 1..Len(g_parameters.ordered_fit_names)} -> StepValues] :
          steps' = s
    /\ pc' = "derivatives"
    /\ UNCHANGED <<inputs, i, j, error, noise, derivs, results, conversion>>

(* ------------------ deep copies and in-place updates ------------------- *)

\* Mutant of deepcopy: no copy is made, the caller's dictionary itself is returned.
deepcopy_alias(heap, src, dst) == [heap |-> heap, ref |-> src]

\* Python objects live on a heap: a mapping from references to dictionaries.
\* copy.deepcopy(heap[src]) allocates a new dictionary under the reference dst
\* and returns that reference.
deepcopy(heap, src, dst) == [heap |-> heap @@ (dst :> heap[src]), ref |-> dst]

\* d[param] += delta on the dictionary that ref points to.
iadd(heap, ref, param, delta) == [heap EXCEPT ![ref][param] = @ + delta]

\* The heap holding the caller's parameter vector only.
BaseHeap == ("params" :> g_parameters.params)

(* ------------------------- get_derivative_images ---------------------- *)

\* One iteration of the loop of get_derivative_images (lines 140-149).
DerivativeIteration(param) ==
    LET up    == deepcopy(BaseHeap, "params", "params_up")
        h1    == iadd(up.heap, up.ref, param, steps[param])
        down  == deepcopy(h1, "params", "params_down")
        h2    == iadd(down.heap, down.ref, param, -steps[param])
        img_up   == get_image(image_renderer, get_galaxies_models(h2[up.ref]))
        img_down == get_image(image_renderer, get_galaxies_models(h2[down.ref]))
    IN  [params   |-> h2["params"],
         rendered |-> <<h2[up.ref], h2[down.ref]>>,
         value    |-> ImgDiv(ImgSub(img_up, img_down), RInt(2 * steps[param]))]

\* Line 98, one loop iteration per step; the loop ends when i reaches num_params.
GetDerivativeImages ==
    /\ pc = "derivatives"
    /\ i < num_params
    /\ LET param == param_names[i + 1]
           it == DerivativeIteration(param)
       IN  /\ g_parameters' = [g_parameters EXCEPT !.params = it.params]
           /\ rendered' = it.rendered
           /\ differentiated' = <<param>>
           /\ derivatives_images' = derivatives_images @@ (param :> it.value)
    /\ i' = i + 1
    /\ UNCHANGED <<image_renderer, snr, var_noise_arg, pc, j, error, noise, steps,
                   param_names, second_derivatives_images, results, conversion>>

EndDerivativeImages ==
    /\ pc = "derivatives"
    /\ i = num_params
    /\ pc' = "second_derivatives"
    /\ i' = 0 /\ j' = 0
    /\ UNCHANGED <<inputs, error, noise, steps, param_names, derivs, results, conversion>>

(* --------------------- get_second_derivatives_images ------------------ *)

\* Mutant of SecondDifference: the sign of the (down, down) corner is wrong.
SecondDifference_sign(img_iup_jup, img_idown_jup, img_iup_jdown, img_idown_jdown, denom) ==
    ImgDiv(ImgSub(ImgSub(ImgSub(img_iup_jup, img_idown_jdown), img_idown_jup),
                  img_iup_jdown), denom)

\* Lines 186-188: the four corner evaluations combined.
SecondDifference(img_iup_jup, img_idown_jup, img_iup_jdown, img_idown_jdown, denom) ==
    ImgDiv(ImgSub(ImgSub(ImgAdd(img_iup_jup, img_idown_jdown), img_idown_jup),
                  img_iup_jdown), denom)

\* One iteration of the loops of get_second_derivatives_images (lines 157-188).
SecondDerivativeIteration(param_i, param_j) ==
    LET uu  == deepcopy(BaseHeap, "params", "params_iup_jup")
        h1  == iadd(iadd(uu.heap, uu.ref, param_i, steps[param_i]),
                    uu.ref, param_j, steps[param_j])
        du  == deepcopy(h1, "params", "params_idown_jup")
        h2  == iadd(iadd(du.heap, du.ref, param_i, -steps[param_i]),
                    du.ref, param_j, steps[param_j])
        ud  == deepcopy(h2, "params", "params_iup_jdown")
        h3  == iadd(iadd(ud.heap, ud.ref, param_i, steps[param_i]),
                    ud.ref, param_j, -steps[param_j])
        dd  == deepcopy(h3, "params", "params_idown_jdown")
        h4  == iadd(iadd(dd.heap, dd.ref, param_i, -steps[param_i]),
                    dd.ref, param_j, -steps[param_j])
        img_iup_jup     == get_image(image_renderer, get_galaxies_models(h4[uu.ref]))
        img_idown_jup   == get_image(image_renderer, get_galaxies_models(h4[du.ref]))
        img_iup_jdown   == get_image(image_renderer, get_galaxies_models(h4[ud.ref]))
        img_idown_jdown == get_image(image_renderer, get_galaxies_models(h4[dd.ref]))
    IN  [params   |-> h4["params"],
         rendered |-> <<h4[uu.ref], h4[du.ref], h4[ud.ref], h4[dd.ref]>>,
         value    |-> SecondDifference(img_iup_jup, img_idown_jup, img_iup_jdown,
                                       img_idown_jdown,
                                       RInt(4 * steps[param_i] * steps[param_j]))]

\* Line 99, one iteration of the inner loop per step.
GetSecondDerivativesImages ==
    /\ pc = "second_derivatives"
    /\ i < num_params
    /\ LET param_i == param_names[i + 1]
           param_j == param_names[j + 1]
           it == SecondDerivativeIteration(param_i, param_j)
       IN  /\ g_parameters' = [g_parameters EXCEPT !.params = it.params]
           /\ rendered' = it.rendered
           /\ differentiated' = <<param_i, param_j>>
           /\ second_derivatives_images' =
                  second_derivatives_images @@ (<<param_i, param_j>> :> it.value)
    /\ IF j + 1 < num_params
       THEN i' = i /\ j' = j + 1
       ELSE i' = i + 1 /\ j' = 0
    /\ UNCHANGED <<image_renderer, snr, var_noise_arg, pc, error, noise, steps,
                   param_names, derivatives_images, results, conversion>>

EndSecondDerivativesImages ==
    /\ pc = "second_derivatives"
    /\ i = num_params
    /\ pc' = "fisher_matrix_images"
    /\ i' = 0 /\ j' = 0
    /\ UNCHANGED <<inputs, error, noise, steps, param_names, derivs, results, conversion>>

(* ------------------------ matrix conversions -------------------------- *)

\* The keys of a name-keyed matrix over the parameter ordering names.
PairKeys(names) == {<<names[a], names[b]>> : a \in 1..Len(names), b \in 1..Len(names)}
TripleKeys(names) ==
    {<<names[a], names[b], names[c]>> :
        a \in 1..Len(names), b \in 1..Len(names), c \in 1..Len(names)}

\* The last position of name n in names: a later assignment to the same
\* dictionary key overwrites an earlier one.
LastIndex(names, n) ==
    CHOOSE a \in 1..Len(names) :
        /\ names[a] = n
        /\ \A b \in 1..Len(names) : names[b] = n => b <= a

\* Mutant of matrix_to_numpy_array: rows and columns exchanged.
matrix_to_numpy_array_transposed(names, matrix) ==
    [a \in 1..Len(names) |-> [b \in 1..Len(names) |-> matrix[<<names[b], names[a]>>]]]

\* Lines 111-120: array[i][j] = matrix[param_names[i], param_names[j]].
matrix_to_numpy_array(names, matrix) ==
    [a \in 1..Len(names) |-> [b \in 1..Len(names) |-> matrix[<<names[a], names[b]>>]]]

\* Lines 122-130: matrix[param_names[i], param_names[j]] = array[i][j].
numpy_array_to_matrix(names, array) ==
    [key \in PairKeys(names) |->
        array[LastIndex(names, key[1])][LastIndex(names, key[2])]]

(* --------------------------- linear algebra --------------------------- *)

\* The matrix A without row r and column c.
Minor(A, r, c) ==
    LET n == Len(A)
        skip(x, at) == IF x < at THEN x ELSE x + 1
    IN  [a \in 1..(n - 1) |-> [b \in 1..(n - 1) |-> A[skip(a, r)][skip(b, c)]]]

RECURSIVE Det(_)
RECURSIVE DetRow(_, _)
\* The sum of the first m terms of the expansion of Det(A) along row 1.
DetRow(A, m) ==
    IF m = 0 THEN RInt(0)
    ELSE LET term == RMul(A[1][m], Det(Minor(A, 1, m)))
         IN  IF m % 2 = 1 THEN RAdd(DetRow(A, m - 1), term)
                          ELSE RSub(DetRow(A, m - 1), term)
Det(A) == IF Len(A) = 0 THEN RInt(1) ELSE DetRow(A, Len(A))

Cofactor(A, r, c) ==
    IF (r + c) % 2 = 0 THEN Det(Minor(A, r, c)) ELSE RNeg(Det(Minor(A, r, c)))

\* np.linalg.inv: raises LinAlgError for a singular matrix, else the inverse.
linalg_inv(A) ==
    LET d == Det(A)
    IN  IF RIsZero(d)
        THEN [raised |-> TRUE, value |-> <<>>]
        ELSE [raised |-> FALSE,
              value |-> [a \in 1..Len(A) |-> [b \in 1..Len(A) |->
                            RDiv(Cofactor(A, b, a), d)]]]

\* np.linalg.cond: the 2-norm condition number, kept as an exact term.
linalg_cond(A) == [cond |-> A]

\* math.sqrt raises ValueError for a negative argument.
math_sqrt_raises(x) == RIsNeg(x)

(* ------------------------- Fisher matrix ------------------------------ *)

\* Mutant of get_fisher_matrix_images: derivative2 is taken for param_i too.
get_fisher_matrix_images_squared ==
    [key \in PairKeys(param_names) |->
        ImgDiv(ImgMul(derivatives_images[key[1]], derivatives_images[key[1]]), var_noise)]

\* Lines 192-203.
get_fisher_matrix_images ==
    [key \in PairKeys(param_names) |->
        ImgDiv(ImgMul(derivatives_images[key[1]], derivatives_images[key[2]]), var_noise)]

\* Lines 205-214.
get_fisher_matrix ==
    [key \in PairKeys(param_names) |-> ImgSum(fisher_matrix_images[key])]

\* Mutant of get_covariance_matrix: a singular Fisher matrix raises nothing and
\* an all-zero covariance is returned.
get_covariance_matrix_unchecked ==
    LET fisher_array == matrix_to_numpy_array(param_names, fisher_matrix)
        covariance_array == linalg_inv(fisher_array)
    IN  [raised |-> FALSE,
         value |-> IF covariance_array.raised
                   THEN [key \in PairKeys(param_names) |-> RInt(0)]
                   ELSE numpy_array_to_matrix(param_names, covariance_array.value)]

\* Lines 216-220.
get_covariance_matrix ==
    LET fisher_array == matrix_to_numpy_array(param_names, fisher_matrix)
        covariance_array == linalg_inv(fisher_array)
    IN  IF covariance_array.raised
        THEN [raised |-> TRUE, value |-> <<>>]
        ELSE [raised |-> FALSE,
              value |-> numpy_array_to_matrix(param_names, covariance_array.value)]

\* Mutant of get_correlation_matrix: the square root raises nothing.
get_correlation_matrix_unchecked ==
    [raised |-> FALSE,
     value |-> [key \in PairKeys(param_names) |->
                   [sigma_ij |-> covariance_matrix[key],
                    sigma_i  |-> Sqrt(covariance_matrix[<<key[1], key[1]>>]),
                    sigma_j  |-> Sqrt(covariance_matrix[<<key[2], key[2]>>])]]]

\* Lines 222-235.  correlation[i, j] is the exact term
\* sigma_ij / (sqrt(sigma_i2) * sqrt(sigma_j2)).
get_correlation_matrix ==
    IF \E key \in PairKeys(param_names) :
          \/ math_sqrt_raises(covariance_matrix[<<key[1], key[1]>>])
          \/ math_sqrt_raises(covariance_matrix[<<key[2], key[2]>>])
    THEN [raised |-> TRUE, value |-> <<>>]
    ELSE [raised |-> FALSE,
          value |-> [key \in PairKeys(param_names) |->
                        [sigma_ij |-> covariance_matrix[key],
                         sigma_i  |-> Sqrt(covariance_matrix[<<key[1], key[1]>>]),
                         sigma_j  |-> Sqrt(covariance_matrix[<<key[2], key[2]>>])]]]

\* Lines 292-295.
get_fisher_condition_number ==
    linalg_cond(matrix_to_numpy_array(param_names, fisher_matrix))

(* ------------------------------ bias ---------------------------------- *)

\* Lines 237-251.
get_bias_matrix_images ==
    [key \in TripleKeys(param_names) |->
        ImgDiv(ImgMul(derivatives_images[key[1]],
                      second_derivatives_images[<<key[2], key[3]>>]), var_noise)]

\* Lines 253-264.
get_bias_matrix ==
    [key \in TripleKeys(param_names) |-> ImgSum(bias_matrix_images[key])]

\* Mutant of BiasTerm: the roles of j and k are exchanged in the covariance factors.
BiasTerm_swapped(param_i, param_j, param_k, param_l) ==
    ImgScale(RMul(covariance_matrix[<<param_i, param_k>>],
                  covariance_matrix[<<param_j, param_l>>]),
             bias_matrix_images[<<param_j, param_k, param_l>>])

\* The term the loops of get_bias_images add for (i, j, k, l): lines 278-281.
BiasTerm(param_i, param_j, param_k, param_l) ==
    ImgScale(RMul(covariance_matrix[<<param_i, param_j>>],
                  covariance_matrix[<<param_k, param_l>>]),
             bias_matrix_images[<<param_j, param_k, param_l>>])

RECURSIVE BiasSummation(_, _)
\* summation after the first t iterations of the loops over (j, k, l), taken
\* in the loops' order: iteration t is j = t / P^2, k = (t / P) mod P, l = t mod P.
BiasSummation(param_i, t) ==
    IF t = 0 THEN ZeroImage
    ELSE LET P == num_params
             u == t - 1
         IN  ImgAdd(BiasSummation(param_i, u),
                    BiasTerm(param_i,
                             param_names[(u \div (P * P)) + 1],
                             param_names[((u \div P) % P) + 1],
                             param_names[(u % P) + 1]))

\* Lines 266-283.
get_bias_images ==
    [n \in {param_names[a] : a \in 1..num_params} |->
        ImgScale(Rat(-1, 2),
                 BiasSummation(n, num_params * num_params * num_params))]

\* Lines 285-290.
get_biases ==
    [n \in {param_names[a] : a \in 1..num_params} |-> ImgSum(bias_images[n])]

(* ----------------- __init__, lines 100-109, one line per step ---------- *)

AssignFisherMatrixImages ==
    /\ pc = "fisher_matrix_images"
    /\ fisher_matrix_images' = get_fisher_matrix_images
    /\ pc' = "fisher_matrix"
    /\ UNCHANGED <<inputs, i, j, error, noise, steps, param_names, derivs, conversion,
                   fisher_matrix, covariance_matrix, correlation_matrix, bias_matrix_images,
                   bias_matrix, bias_images, biases, fisher_condition_number>>

AssignFisherMatrix ==
    /\ pc = "fisher_matrix"
    /\ fisher_matrix' = get_fisher_matrix
    /\ pc' = "covariance_matrix"
    /\ UNCHANGED <<inputs, i, j, error, noise, steps, param_names, derivs, conversion,
                   fisher_matrix_images, covariance_matrix, correlation_matrix,
                   bias_matrix_images, bias_matrix, bias_images, biases,
                   fisher_condition_number>>

\* Line 102: an exception leaves __init__ at once and no object is returned.
AssignCovarianceMatrix ==
    /\ pc = "covariance_matrix"
    /\ LET r == get_covariance_matrix
       IN  IF r.raised
           THEN /\ pc' = "failed" /\ error' = "LinAlgError"
                /\ UNCHANGED covariance_matrix
           ELSE /\ pc' = "correlation_matrix" /\ error' = error
                /\ covariance_matrix' = r.value
    /\ UNCHANGED <<inputs, i, j, noise, steps, param_names, derivs, conversion,
                   fisher_matrix_images, fisher_matrix, correlation_matrix,
                   bias_matrix_images, bias_matrix, bias_images, biases,
                   fisher_condition_number>>

\* Line 103.
AssignCorrelationMatrix ==
    /\ pc = "correlation_matrix"
    /\ LET r == get_correlation_matrix
       IN  IF r.raised
           THEN /\ pc' = "failed" /\ error' = "ValueError"
                /\ UNCHANGED correlation_matrix
           ELSE /\ pc' = "bias_matrix_images" /\ error' = error
                /\ correlation_matrix' = r.value
    /\ UNCHANGED <<inputs, i, j, noise, steps, param_names, derivs, conversion,
                   fisher_matrix_images, fisher_matrix, covariance_matrix,
                   bias_matrix_images, bias_matrix, bias_images, biases,
                   fisher_condition_number>>

AssignBiasMatrixImages ==
    /\ pc = "bias_matrix_images"
    /\ bias_matrix_images' = get_bias_matrix_images
    /\ pc' = "bias_matrix"
    /\ UNCHANGED <<inputs, i, j, error, noise, steps, param_names, derivs, conversion,
                   fisher_matrix_images, fisher_matrix, covariance_matrix,
                   correlation_matrix, bias_matrix, bias_images, biases,
                   fisher_condition_number>>

AssignBiasMatrix ==
    /\ pc = "bias_matrix"
    /\ bias_matrix' = get_bias_matrix
    /\ pc' = "bias_images"
    /\ UNCHANGED <<inputs, i, j, error, noise, steps, param_names, derivs, conversion,
                   fisher_matrix_images, fisher_matrix, covariance_matrix,
                   correlation_matrix, bias_matrix_images, bias_images, biases,
                   fisher_condition_number>>

AssignBiasImages ==
    /\ pc = "bias_images"
    /\ bias_images' = get_bias_images
    /\ pc' = "biases"
    /\ UNCHANGED <<inputs, i, j, error, noise, steps, param_names, derivs, conversion,
                   fisher_matrix_images, fisher_matrix, covariance_matrix,
                   correlation_matrix, bias_matrix_images, bias_matrix, biases,
                   fisher_condition_number>>

AssignBiases ==
    /\ pc = "biases"
    /\ biases' = get_biases
    /\ pc' = "fisher_condition_number"
    /\ UNCHANGED <<inputs, i, j, error, noise, steps, param_names, derivs, conversion,
                   fisher_matrix_images, fisher_matrix, covariance_matrix,
                   correlation_matrix, bias_matrix_images, bias_matrix, bias_images,
                   fisher_condition_number>>

\* Line 109, the last statement of __init__: the object is returned.
AssignFisherConditionNumber ==
    /\ pc = "fisher_condition_number"
    /\ fisher_condition_number' = <<get_fisher_condition_number>>
    /\ pc' = "done"
    /\ UNCHANGED <<inputs, i, j, error, noise, steps, param_names, derivs, conversion,
                   fisher_matrix_images, fisher_matrix, covariance_matrix,
                   correlation_matrix, bias_matrix_images, bias_matrix, bias_images,
                   biases>>

Next ==
    \/ InitVarNoise
    \/ InitSteps
    \/ GetDerivativeImages
    \/ EndDerivativeImages
    \/ GetSecondDerivativesImages
    \/ EndSecondDerivativesImages
    \/ AssignFisherMatrixImages
    \/ AssignFisherMatrix
    \/ AssignCovarianceMatrix
    \/ AssignCorrelationMatrix
    \/ AssignBiasMatrixImages
    \/ AssignBiasMatrix
    \/ AssignBiasImages
    \/ AssignBiases
    \/ AssignFisherConditionNumber

Spec == Init /\ [][Next]_vars

(* ------------- the matrix conversions as operations of their own ------- *)

\* Matrix entries range over 0..MaxEntry.
MaxEntry == 1

EntryValues == {RInt(v) : v \in 0..MaxEntry}

\* Parameter orderings the conversions are exercised with.
ConvOrderings == {<<"flux_1", "x0_1">>, <<"x0_1", "flux_1">>, <<"flux_1", "flux_2">>}

\* A Fisher object whose param_names is fixed, and a matrix handed to one of
\* its two conversions: a name-keyed matrix populated over all ordered pairs,
\* or a dense P x P array.
InitConv ==
    /\ g_parameters = Unset /\ image_renderer = "lin" /\ snr = 1 /\ var_noise_arg = <<>>
    /\ pc = "constructed"
    /\ i = 0 /\ j = 0
    /\ error = ""
    /\ image = Unset /\ var_noise = Unset /\ snrs = Unset /\ noise_calls = <<>>
    /\ steps = Unset
    /\ param_names \in ConvOrderings
    /\ derivatives_images = Unset /\ second_derivatives_images = Unset
    /\ rendered = <<>> /\ differentiated = <<>>
    /\ fisher_matrix_images = Unset /\ fisher_matrix = Unset
    /\ covariance_matrix = Unset /\ correlation_matrix = Unset
    /\ bias_matrix_images = Unset /\ bias_matrix = Unset
    /\ bias_images = Unset /\ biases = Unset
    /\ fisher_condition_number = Unset
    /\ named = Unset /\ dense = Unset
    /\ \/ /\ conv = "named"
          /\ conv_arg \in [PairKeys(param_names) -> EntryValues]
       \/ /\ conv = "dense"
          /\ conv_arg \in [1..Len(param_names) -> [1..Len(param_names) -> EntryValues]]

pipeline == <<inputs, control, noise, steps, param_names, derivs, results>>

\* matrix_to_numpy_array(M) on the argument.
NamedToDense ==
    /\ conv = "named"
    /\ dense' = matrix_to_numpy_array(param_names, conv_arg)
    /\ conv' = "named_dense"
    /\ UNCHANGED <<pipeline, conv_arg, named>>

\* numpy_array_to_matrix on the result of NamedToDense.
NamedToDenseToNamed ==
    /\ conv = "named_dense"
    /\ named' = numpy_array_to_matrix(param_names, dense)
    /\ conv' = "named_dense_named"
    /\ UNCHANGED <<pipeline, conv_arg, dense>>

\* numpy_array_to_matrix(A) on the argument.
DenseToNamed ==
    /\ conv = "dense"
    /\ named' = numpy_array_to_matrix(param_names, conv_arg)
    /\ conv' = "dense_named"
    /\ UNCHANGED <<pipeline, conv_arg, dense>>

\* matrix_to_numpy_array on the result of DenseToNamed.
DenseToNamedToDense ==
    /\ conv = "dense_named"
    /\ dense' = matrix_to_numpy_array(param_names, named)
    /\ conv' = "dense_named_dense"
    /\ UNCHANGED <<pipeline, conv_arg, named>>

NextConv ==
    \/ NamedToDense
    \/ NamedToDenseToNamed
    \/ DenseToNamed
    \/ DenseToNamedToDense

SpecConv == InitConv /\ [][NextConv]_vars

(* =============================== claims =============================== *)

IsSet(x) == DOMAIN x # {}

Terminated == pc \in {"done", "failed"}

\* The dense Fisher matrix of the current state.
FisherArray == matrix_to_numpy_array(param_names, fisher_matrix)

\* No result of the covariance step or of a later step exists.
NothingAfterFisher ==
    /\ ~IsSet(covariance_matrix) /\ ~IsSet(correlation_matrix)
    /\ ~IsSet(bias_matrix_images) /\ ~IsSet(bias_matrix)
    /\ ~IsSet(bias_images) /\ ~IsSet(biases)

(* C1: every construction that reaches the covariance step (the Fisher     *)
(* matrix exists) and ends, by returning or by the inversion's exception,  *)
(* has produced fisher_condition_number.  (A construction ended by the     *)
(* square root's exception in the later correlation step is left out: it   *)
(* is C4's case.)  The code computes the condition number on line 109,     *)
(* after the inversion on line 102, so a failed inversion ends             *)
(* construction without it.                                                *)
C1_ConditionNumberAlwaysReported ==
    (Terminated /\ IsSet(fisher_matrix) /\ error # "ValueError")
       => fisher_condition_number # <<>>

(* C2: once the Fisher matrix is singular (its determinant is zero, as     *)
(* when one parameter's derivative image is all zero) and the covariance   *)
(* step has run, construction has ended with the inversion's error and no  *)
(* covariance, correlation, bias matrix, bias image or bias exists.        *)
C2_SingularFisherFails ==
    (/\ IsSet(fisher_matrix)
     /\ pc # "covariance_matrix"
     /\ \/ RIsZero(Det(FisherArray))
        \/ \E n \in DOMAIN derivatives_images : derivatives_images[n] = ZeroImage)
    => /\ pc = "failed"
       /\ error = "LinAlgError"
       /\ NothingAfterFisher

\* C2's case: a parameter with an all-zero derivative image, and the failed inversion.
C2_Witness ==
    /\ pc = "failed" /\ error = "LinAlgError"
    /\ num_params = 2
    /\ \E n \in DOMAIN derivatives_images : derivatives_images[n] = ZeroImage
    /\ \E n \in DOMAIN derivatives_images : derivatives_images[n] # ZeroImage

NonPositiveStep == IsSet(steps) /\ \E n \in DOMAIN steps : steps[n] <= 0

(* C3: with a zero or negative step for some parameter, construction fails *)
(* at once: no derivative image is ever computed and no object is          *)
(* returned.  The code never looks at the sign of a step.                  *)
C3_NonPositiveStepFails ==
    NonPositiveStep =>
        /\ ~IsSet(derivatives_images)
        /\ pc \in {"derivatives", "failed"}
        /\ pc # "done"

NegativeVariance ==
    /\ IsSet(covariance_matrix)
    /\ \E a \in 1..num_params :
          RIsNeg(covariance_matrix[<<param_names[a], param_names[a]>>])

(* C4: once some diagonal covariance entry is negative and                 *)
(* get_correlation_matrix has run, construction has ended with the square  *)
(* root's error and no correlation matrix (nor any later result) exists.   *)
C4_NegativeVarianceFails ==
    (NegativeVariance /\ pc # "correlation_matrix")
    => /\ pc = "failed"
       /\ error = "ValueError"
       /\ ~IsSet(correlation_matrix)
       /\ ~IsSet(bias_matrix_images) /\ ~IsSet(bias_images) /\ ~IsSet(biases)

\* C4's case: a negative variance beside a covariance between two parameters,
\* and the failed correlation step.
C4_Witness ==
    /\ NegativeVariance
    /\ num_params = 2
    /\ pc = "failed" /\ error = "ValueError"

(* C5: under the fixed parameter ordering, converting a fully populated    *)
(* name-keyed matrix to a dense array and back gives the same mapping (the *)
(* same keys, the same value per key), and converting a dense P x P array  *)
(* to a name-keyed matrix and back gives the same array.                   *)
C5_RoundTrip ==
    /\ conv = "named_dense_named" =>
          /\ DOMAIN named = DOMAIN conv_arg
          /\ \A key \in DOMAIN conv_arg : named[key] = conv_arg[key]
    /\ conv = "dense_named_dense" =>
          /\ Len(dense) = Len(conv_arg)
          /\ \A a \in 1..Len(conv_arg) : dense[a] = conv_arg[a]

\* C5's case: both round trips completed on a matrix that is not symmetric.
C5_Witness ==
    /\ conv \in {"named_dense_named", "dense_named_dense"}
    /\ LET A == IF conv = "named_dense_named" THEN dense ELSE conv_arg
       IN  A[1][2] # A[2][1]

\* The sum over pixels of a * b / c, dividing once after the sum.
PixelDot(a, b, c) == RDiv(ImgSum(ImgMul(a, b)), c)

\* Entry (a, b) of the product of the dense Fisher matrix and the dense covariance.
FisherTimesCovariance(a, b) ==
    SumUpTo([c \in 1..num_params |->
                RMul(fisher_matrix[<<param_names[a], param_names[c]>>],
                     covariance_matrix[<<param_names[c], param_names[b]>>])],
            num_params)

(* C6: for every pair of parameters, fisher_matrix[i,j] = fisher_matrix    *)
(* [j,i] and fisher_matrix[i,j] is the sum over pixels of the product of   *)
(* the two first-derivative images over var_noise; the covariance is the   *)
(* inverse of the Fisher matrix and covariance[i,j] = covariance[j,i].     *)
C6_Symmetry ==
    /\ IsSet(fisher_matrix) =>
          \A key \in PairKeys(param_names) :
             /\ fisher_matrix[key] = fisher_matrix[<<key[2], key[1]>>]
             /\ fisher_matrix[key] = PixelDot(derivatives_images[key[1]],
                                              derivatives_images[key[2]], var_noise)
    /\ IsSet(covariance_matrix) =>
          /\ \A key \in PairKeys(param_names) :
                covariance_matrix[key] = covariance_matrix[<<key[2], key[1]>>]
          /\ \A a \in 1..num_params : \A b \in 1..num_params :
                FisherTimesCovariance(a, b) = RInt(IF a = b THEN 1 ELSE 0)

\* C6's case: a finished construction with two parameters whose Fisher and
\* covariance matrices have non-zero off-diagonal entries and unequal diagonals.
C6_Witness ==
    /\ pc = "done"
    /\ num_params = 2
    /\ ~RIsZero(fisher_matrix[<<param_names[1], param_names[2]>>])
    /\ ~RIsZero(covariance_matrix[<<param_names[1], param_names[2]>>])
    /\ fisher_matrix[<<param_names[1], param_names[1]>>]
          # fisher_matrix[<<param_names[2], param_names[2]>>]

Shifted(base, param, delta) == [base EXCEPT ![param] = @ + delta]

\* The parameter vectors the latest loop iteration is to render: the base
\* vector with the one or two differentiated parameters moved by their steps.
ExpectedRendered ==
    LET base == g_parameters.params
    IN  IF Len(differentiated) = 1
        THEN LET n == differentiated[1]
             IN  <<Shifted(base, n, steps[n]), Shifted(base, n, -steps[n])>>
        ELSE IF Len(differentiated) = 2
        THEN LET n == differentiated[1]
                 m == differentiated[2]
             IN  <<Shifted(Shifted(base, n, steps[n]), m, steps[m]),
                   Shifted(Shifted(base, n, -steps[n]), m, steps[m]),
                   Shifted(Shifted(base, n, steps[n]), m, -steps[m]),
                   Shifted(Shifted(base, n, -steps[n]), m, -steps[m])>>
        ELSE <<>>

\* Every rendered vector agrees with the base vector outside the differentiated parameters.
RenderedDiffersOnlyWhereDifferentiated ==
    \A r \in 1..Len(rendered) :
       \A n \in DOMAIN g_parameters.params :
          (\A d \in 1..Len(differentiated) : differentiated[d] # n)
             => rendered[r][n] = g_parameters.params[n]

(* C7: no step of construction changes the caller's parameter vector, and  *)
(* every vector handed to the renderer by a derivative loop is the base    *)
(* vector with only the one or two differentiated parameters moved, each   *)
(* by its own step: nothing of an earlier perturbation is left in it.      *)
C7_ParamsNotMutated ==
    [][/\ g_parameters'.params = g_parameters.params
       /\ rendered' = ExpectedRendered'
       /\ RenderedDiffersOnlyWhereDifferentiated']_vars

\* C7's case: a mixed second derivative of two different parameters was just
\* rendered, after other iterations, from four perturbed vectors.
C7_Witness ==
    /\ pc = "second_derivatives"
    /\ Len(differentiated) = 2
    /\ differentiated[1] # differentiated[2]
    /\ Len(rendered) = 4
    /\ \A r \in 1..4 : rendered[r] # g_parameters.params
    /\ i = 1 /\ j = 1

\* Pixel px of sum over (k, l) of covariance[k,l] * second_derivative_image[k,l].
CurvatureTrace(px) ==
    LET P == num_params
    IN  SumUpTo([t \in 1..(P * P) |->
                    LET k == param_names[((t - 1) \div P) + 1]
                        l == param_names[((t - 1) % P) + 1]
                    IN  RMul(covariance_matrix[<<k, l>>],
                             second_derivatives_images[<<k, l>>][px])],
                P * P)

\* Pixel px of the bias image of parameter n, with the contraction factored:
\* -1/2 * (sum_j covariance[n,j] * D_j) * (sum_kl covariance[k,l] * D2_kl) / var_noise.
ExpectedBiasPixel(n, px) ==
    LET gradient == SumUpTo([a \in 1..num_params |->
                                RMul(covariance_matrix[<<n, param_names[a]>>],
                                     derivatives_images[param_names[a]][px])],
                            num_params)
    IN  RMul(Rat(-1, 2), RDiv(RMul(gradient, CurvatureTrace(px)), var_noise))

(* C8: bias_matrix_images has an entry first_derivative[j] *                *)
(* second_derivative[k,l] / var_noise for every ordered triple; for every  *)
(* parameter i, bias_images[i] is -1/2 times the sum over all (j,k,l) of   *)
(* covariance[i,j] * covariance[k,l] * bias_matrix_image[j,k,l]; and       *)
(* biases[i] is the sum over pixels of bias_images[i].                     *)
C8_BiasContraction ==
    /\ IsSet(bias_matrix_images) =>
          /\ DOMAIN bias_matrix_images = TripleKeys(param_names)
          /\ \A key \in TripleKeys(param_names) : \A px \in Pixels :
                RMul(bias_matrix_images[key][px], var_noise)
                   = RMul(derivatives_images[key[1]][px],
                          second_derivatives_images[<<key[2], key[3]>>][px])
    /\ IsSet(bias_images) =>
          \A a \in 1..num_params : \A px \in Pixels :
             bias_images[param_names[a]][px] = ExpectedBiasPixel(param_names[a], px)
    /\ IsSet(biases) =>
          \A a \in 1..num_params :
             biases[param_names[a]] = SumUpTo(bias_images[param_names[a]], NumPixels)

\* C8's case: a finished construction with two parameters and different,
\* non-zero biases.
C8_Witness ==
    /\ pc = "done"
    /\ num_params = 2
    /\ ~RIsZero(biases[param_names[1]])
    /\ ~RIsZero(biases[param_names[2]])
    /\ biases[param_names[1]] # biases[param_names[2]]

\* The image of galaxy id rendered alone.
ImageOfGalaxy(id) ==
    get_image(image_renderer, get_galaxy_model(g_parameters.id_params[id]))

\* The image of all galaxies together.
FullImage == get_image(image_renderer, get_galaxies_models(FlatParams(g_parameters.id_params)))

(* C9: a supplied var_noise is used unchanged and the noise model is not   *)
(* called; without it and with one galaxy the variance is the noise        *)
(* model's for the full image at the target snr; without it and with       *)
(* several galaxies it is the noise model's for the first galaxy's image   *)
(* alone, self.snrs holds the target snr and then get_snr of each other    *)
(* galaxy's image under that variance, and every Fisher and bias element   *)
(* is divided by that one variance.                                        *)
C9_NoiseVarianceSelection ==
    /\ (pc # "var_noise" /\ var_noise_arg # <<>>) =>
          /\ var_noise = var_noise_arg[1]
          /\ noise_calls = <<>>
    /\ (pc # "var_noise" /\ var_noise_arg = <<>> /\ g_parameters.num_galaxies = 1) =>
          /\ var_noise = add_noise(FullImage, snr)
          /\ noise_calls = <<FullImage>>
    /\ (pc # "var_noise" /\ var_noise_arg = <<>> /\ g_parameters.num_galaxies > 1) =>
          /\ var_noise = add_noise(ImageOfGalaxy("1"), snr)
          /\ noise_calls = <<ImageOfGalaxy("1")>>
          /\ Len(snrs) = g_parameters.num_galaxies
          /\ snrs[1] = [value |-> snr]
          /\ snrs[2] = get_snr(ImageOfGalaxy("2"), add_noise(ImageOfGalaxy("1"), snr))
    /\ IsSet(fisher_matrix_images) =>
          \A key \in PairKeys(param_names) :
             ImgScale(var_noise, fisher_matrix_images[key])
                = ImgMul(derivatives_images[key[1]], derivatives_images[key[2]])
    /\ IsSet(bias_matrix_images) =>
          \A key \in TripleKeys(param_names) :
             ImgScale(var_noise, bias_matrix_images[key])
                = ImgMul(derivatives_images[key[1]],
                         second_derivatives_images[<<key[2], key[3]>>])

\* C9's case: two galaxies of different images, no var_noise supplied, and a
\* finished construction.
C9_Witness ==
    /\ pc = "done"
    /\ var_noise_arg = <<>>
    /\ g_parameters.num_galaxies = 2
    /\ ImageOfGalaxy("1") # ImageOfGalaxy("2")
    /\ Len(snrs) = 2

\* The image with parameter n at x and every other parameter at its base value.
RenderAt(n, x) ==
    get_image(image_renderer, get_galaxies_models(Shifted(g_parameters.params, n,
                                                          x - g_parameters.params[n])))

\* The renderer is exactly linear in parameter n on [lo, hi].  Every renderer
\* of the model is, in each parameter, a polynomial or piecewise linear with
\* its breaks at integers, so it is linear on [lo, hi] exactly when its second
\* difference vanishes at every integer strictly inside.
LinearOn(n, lo, hi) ==
    \A x \in (lo + 1)..(hi - 1) :
       ImgAdd(RenderAt(n, x + 1), RenderAt(n, x - 1)) = ImgScale(RInt(2), RenderAt(n, x))

(* C10 as stated, for the positive steps the step-size policy promises:    *)
(* for a renderer exactly linear in p on                                   *)
(* [value(p) - step(p), value(p) + step(p)], second_derivatives_images     *)
(* [p,p] is the zero image.  The code evaluates [p,p] at value(p) and at   *)
(* value(p) +- 2 step(p), outside that interval.                           *)
C10_LinearOnStepInterval ==
    \A a \in 1..num_params :
       LET n == param_names[a]
           v == g_parameters.params[n]
           s == steps[n]
       IN  (/\ <<n, n>> \in DOMAIN second_derivatives_images
            /\ s > 0
            /\ LinearOn(n, v - s, v + s))
              => second_derivatives_images[<<n, n>>] = ZeroImage

(* C10 amended: for a renderer exactly linear in p on                      *)
(* [value(p) - 2 |step(p)|, value(p) + 2 |step(p)|] and a step that is not *)
(* zero, second_derivatives_images[p,p] is the zero image.                 *)
C10_LinearOnDoubleStepInterval ==
    \A a \in 1..num_params :
       LET n == param_names[a]
           v == g_parameters.params[n]
           s == Abs(steps[n])
       IN  (<<n, n>> \in DOMAIN second_derivatives_images
               /\ LinearOn(n, v - 2 * s, v + 2 * s))
              => second_derivatives_images[<<n, n>>] = ZeroImage

\* C10's case: the second derivative with respect to a position, for a renderer
\* linear in it, computed with a first derivative that is not zero.
C10_Witness ==
    /\ <<"x0_1", "x0_1">> \in DOMAIN second_derivatives_images
    /\ LinearOn("x0_1", g_parameters.params["x0_1"] - 2 * Abs(steps["x0_1"]),
                g_parameters.params["x0_1"] + 2 * Abs(steps["x0_1"]))
    /\ derivatives_images["x0_1"] # ZeroImage
    /\ second_derivatives_images[<<"x0_1", "x0_1">>] = ZeroImage

=============================================================================
